---- MODULE Spec2Model ----
(***************************************************************************)
(* Model of the XMLConverter binary codec of strophe.js                    *)
(* (src/unnamed/part_000, src/src/EncodeDecode/lookupTables.js).           *)
(*                                                                         *)
(* A byte array (Uint8Array) is a sequence over 0..255.  A JavaScript      *)
(* string is the sequence of its code points; an unpaired surrogate is a   *)
(* code point in 55296..57343.  An element is a record                     *)
(* [name, attrs, children]; a text node is a record [content].             *)
(***************************************************************************)
EXTENDS Integers, Sequences, FiniteSets, TLC

\* ------------------------------------------------------------------------
\* Bounds of the model.
\* ------------------------------------------------------------------------
MaxAttrs == 2
MaxKids == 2
MaxCut == 1
MaxAccLen == 6
MaxNum == 3
MaxAccNum == 1

\* ------------------------------------------------------------------------
\* Program constants.
\* ------------------------------------------------------------------------
IS_ELEMENT == 20
IS_CONTENT == 10

\* ------------------------------------------------------------------------
\* Byte arrays.
\* ------------------------------------------------------------------------
Min(a, b) == IF a < b THEN a ELSE b

Max(a, b) == IF a > b THEN a ELSE b

\* Uint8Array.prototype.slice(start, end): negative indices count from the
\* end, both are clamped to the array.
Slice(arr, start, end) ==
  LET len == Len(arr)
      from == IF start < 0 THEN Max(len + start, 0) ELSE Min(start, len)
      to == IF end < 0 THEN Max(len + end, 0) ELSE Min(end, len)
  IN  IF to <= from THEN << >> ELSE SubSeq(arr, from + 1, to)

\* Uint8Array.prototype.slice(start)
SliceFrom(arr, start) == Slice(arr, start, Len(arr))

\* The table without its (i & 0xf0) >> 4 half.
NibbleSwapTableLowOnly == [i \in 0..255 |-> (i % 16) * 16]

\* lookupTables.js: nibbleSwapTable[i] = ((i & 0x0f) << 4) | ((i & 0xf0) >> 4)
nibbleSwapTable == [i \in 0..255 |-> ((i % 16) * 16) + ((i - (i % 16)) \div 16)]

\* XMLConverter.nibbleSwap
nibbleSwap(binaryData) ==
  [i \in 1..Len(binaryData) |-> nibbleSwapTable[binaryData[i]]]

\* ------------------------------------------------------------------------
\* TextEncoder.encode / TextDecoder('utf-8').decode
\* ------------------------------------------------------------------------
REPLACEMENT == 65533

\* UTF-8 bytes of one code point; an unpaired surrogate is encoded as U+FFFD.
Utf8OfCodePoint(c) ==
  IF c < 128 THEN << c >>
  ELSE IF c < 2048 THEN << 192 + (c \div 64), 128 + (c % 64) >>
  ELSE IF c >= 55296 /\ c <= 57343 THEN << 239, 191, 189 >>
  ELSE IF c < 65536
    THEN << 224 + (c \div 4096), 128 + ((c \div 64) % 64), 128 + (c % 64) >>
  ELSE << 240 + (c \div 262144), 128 + ((c \div 4096) % 64),
          128 + ((c \div 64) % 64), 128 + (c % 64) >>

RECURSIVE TextEncode(_)
TextEncode(str) ==
  IF str = << >> THEN << >>
  ELSE Utf8OfCodePoint(Head(str)) \o TextEncode(Tail(str))

\* The WHATWG UTF-8 decoder, not fatal: needed = bytes still needed for the
\* code point cp, lo..hi = the range the next continuation byte must be in.
RECURSIVE Utf8Decode(_, _, _, _, _, _)
Utf8Decode(bytes, i, needed, cp, lo, hi) ==
  IF i > Len(bytes)
    THEN IF needed > 0 THEN << REPLACEMENT >> ELSE << >>
  ELSE
    LET b == bytes[i] IN
    IF needed = 0 THEN
      IF b < 128 THEN << b >> \o Utf8Decode(bytes, i + 1, 0, 0, 128, 191)
      ELSE IF b >= 194 /\ b <= 223
        THEN Utf8Decode(bytes, i + 1, 1, b % 32, 128, 191)
      ELSE IF b >= 224 /\ b <= 239
        THEN Utf8Decode(bytes, i + 1, 2, b % 16,
                        IF b = 224 THEN 160 ELSE 128,
                        IF b = 237 THEN 159 ELSE 191)
      ELSE IF b >= 240 /\ b <= 244
        THEN Utf8Decode(bytes, i + 1, 3, b % 8,
                        IF b = 240 THEN 144 ELSE 128,
                        IF b = 244 THEN 143 ELSE 191)
      ELSE << REPLACEMENT >> \o Utf8Decode(bytes, i + 1, 0, 0, 128, 191)
    ELSE IF b < lo \/ b > hi
      THEN << REPLACEMENT >> \o Utf8Decode(bytes, i, 0, 0, 128, 191)
    ELSE IF needed = 1
      THEN << (cp * 64) + (b % 64) >> \o Utf8Decode(bytes, i + 1, 0, 0, 128, 191)
    ELSE Utf8Decode(bytes, i + 1, needed - 1, (cp * 64) + (b % 64), 128, 191)

\* decode() of a decoder built without ignoreBOM: a leading EF BB BF is dropped.
TextDecode(bytes) ==
  IF Len(bytes) >= 3 /\ SubSeq(bytes, 1, 3) = << 239, 187, 191 >>
    THEN Utf8Decode(bytes, 4, 0, 0, 128, 191)
    ELSE Utf8Decode(bytes, 1, 0, 0, 128, 191)

\* ------------------------------------------------------------------------
\* VarInt
\* ------------------------------------------------------------------------
\* The do-while loop of encodeNumber / encodeNumberAddtoAcc: result is the
\* used portion of the 5 byte buffer, index = Len(result).
RECURSIVE EncodeLoop(_, _)
EncodeLoop(number, result) ==
  LET low == number % 128
      rest == number \div 128
      byte == IF rest > 0 THEN low + 128 ELSE low
      out == Append(result, byte)
  IN  IF rest > 0 /\ Len(out) < 5 THEN EncodeLoop(rest, out) ELSE out

\* encodeNumber without its loop: the low 7 bits only.
EncodeNumberNoContinuation(number) ==
  IF number = 0 THEN << 0 >> ELSE << number % 128 >>

\* static XMLConverter.encodeNumber
encodeNumber(number) ==
  IF number = 0 THEN << 0 >> ELSE EncodeLoop(number, << >>)

\* this.addToAcc
addToAcc(accumulator, array) ==
  IF Len(array) = 0 THEN accumulator
  ELSE IF Len(accumulator) = 0 THEN array
  ELSE accumulator \o array

\* this.encodeNumberAddtoAcc
encodeNumberAddtoAcc(accumulator, number) ==
  IF number = 0 THEN addToAcc(accumulator, << 0 >>)
  ELSE addToAcc(accumulator, EncodeLoop(number, << >>))

\* (byte & 0x7f) << shift, as the signed 32 bit integer JavaScript computes.
ShiftLeft32(bits, shift) ==
  IF shift = 0 THEN bits
  ELSE IF shift = 7 THEN bits * 128
  ELSE IF shift = 14 THEN bits * 16384
  ELSE IF shift = 21 THEN bits * 2097152
  ELSE LET low4 == bits % 16
       IN  IF low4 >= 8 THEN (low4 - 16) * 268435456 ELSE low4 * 268435456

\* The do-while loop of decodeNumber.  number has no bit at or above shift,
\* so number |= x << shift is an addition.
RECURSIVE DecodeLoop(_, _, _, _)
DecodeLoop(binaryData, number, shift, currentIndex) ==
  IF currentIndex >= Len(binaryData)
    THEN [ok |-> FALSE, val |-> 0, bin |-> binaryData]
  ELSE
    LET byte == binaryData[currentIndex + 1]
        n == number + ShiftLeft32(byte % 128, shift)
    IN  IF byte < 128
          THEN [ok |-> TRUE, val |-> n, bin |-> SliceFrom(binaryData, currentIndex + 1)]
        ELSE IF shift + 7 < 32
          THEN DecodeLoop(binaryData, n, shift + 7, currentIndex + 1)
        ELSE [ok |-> TRUE, val |-> n, bin |-> SliceFrom(binaryData, currentIndex + 1)]

\* this.decodeNumber: ok = FALSE when it throws, val = the number returned,
\* bin = this.binaryData afterwards.
decodeNumber(binaryData) ==
  IF Len(binaryData) > 0 /\ binaryData[1] = 0
    THEN [ok |-> TRUE, val |-> 0, bin |-> SliceFrom(binaryData, 1)]
    ELSE DecodeLoop(binaryData, 0, 0, 0)

\* ------------------------------------------------------------------------
\* StringField
\* ------------------------------------------------------------------------
\* A JavaScript string is truthy unless it is empty; a missing property is
\* undefined, which is falsy.
Truthy(node, field) == field \in DOMAIN node /\ node[field] # << >>

\* The bytes encodeStringAddToAcc builds for str (lines 108-118).
EncodeStringPayload(str, swapEnabled) ==
  IF swapEnabled THEN nibbleSwap(TextEncode(str)) ELSE TextEncode(str)

\* this.encodeStringAddToAcc
encodeStringAddToAcc(accumulator, str, swapEnabled) ==
  LET binaryData == EncodeStringPayload(str, swapEnabled)
  IN  addToAcc(encodeNumberAddtoAcc(accumulator, Len(binaryData)), binaryData)

\* What a call returns and leaves in this.binaryData when it throws.
Thrown(binaryData) == [ok |-> FALSE, val |-> << >>, bin |-> binaryData]

\* decodeString after its decodeNumber (lines 136-151): length is what
\* decodeNumber returned.
DecodeStringBytes(length, swapEnabled) ==
  IF ~length.ok THEN Thrown(length.bin)
  ELSE
    LET binaryStr == Slice(length.bin, 0, length.val)
        decodedStr == IF swapEnabled THEN nibbleSwap(binaryStr) ELSE binaryStr
    IN  [ok |-> TRUE, val |-> TextDecode(decodedStr),
         bin |-> SliceFrom(length.bin, length.val)]

\* this.decodeString: ok = FALSE when decodeNumber throws, val = the string
\* returned, bin = this.binaryData afterwards.
decodeString(binaryData, swapEnabled) ==
  DecodeStringBytes(decodeNumber(binaryData), swapEnabled)

\* ------------------------------------------------------------------------
\* Element
\* ------------------------------------------------------------------------
\* The attribute loop of encodeElement (lines 319-322).
RECURSIVE EncodeAttrs(_, _, _)
EncodeAttrs(accumulator, attrs, swapEnabled) ==
  IF attrs = << >> THEN accumulator
  ELSE EncodeAttrs(
         encodeStringAddToAcc(
           encodeStringAddToAcc(accumulator, Head(attrs)[1], swapEnabled),
           Head(attrs)[2], swapEnabled),
         Tail(attrs), swapEnabled)

\* name, attribute count and attributes (lines 313-323).
EncodeHead(accumulator, element, swapEnabled) ==
  EncodeAttrs(
    encodeNumberAddtoAcc(
      encodeStringAddToAcc(accumulator, element.name, swapEnabled),
      Len(element.attrs)),
    element.attrs, swapEnabled)

\* children[0].name ? IS_ELEMENT : IS_CONTENT
ChildrenType(children) ==
  IF Truthy(children[1], "name") THEN IS_ELEMENT ELSE IS_CONTENT

\* The zero children branch without its count.
EmptyChildrenNoCount(accumulator) == encodeNumberAddtoAcc(accumulator, IS_ELEMENT)

\* The zero children branch of encodeElement (lines 326-330).
EncodeEmptyChildren(accumulator) ==
  encodeNumberAddtoAcc(encodeNumberAddtoAcc(accumulator, IS_ELEMENT), 0)

RECURSIVE encodeElement(_, _, _)
RECURSIVE EncodeChildren(_, _, _)
\* The loop over the children of encodeElement (lines 337-343).
EncodeChildren(accumulator, children, swapEnabled) ==
  IF children = << >> THEN accumulator
  ELSE
    LET child == Head(children)
        acc == IF Truthy(child, "name")
                 THEN encodeElement(accumulator, child, swapEnabled)
               ELSE IF Truthy(child, "content")
                 THEN encodeStringAddToAcc(accumulator, child.content, swapEnabled)
               ELSE accumulator
    IN  EncodeChildren(acc, Tail(children), swapEnabled)

\* this.encodeElement: the accumulator after the call, which is also what
\* the call returns.
encodeElement(accumulator, element, swapEnabled) ==
  LET head == EncodeHead(accumulator, element, swapEnabled)
      children == element.children
  IN  IF Len(children) = 0 THEN EncodeEmptyChildren(head)
      ELSE
        LET childrenType == ChildrenType(children)
            disc == encodeNumberAddtoAcc(head, childrenType)
            counted == IF childrenType = IS_ELEMENT
                         THEN encodeNumberAddtoAcc(disc, Len(children))
                         ELSE disc
        IN  EncodeChildren(counted, children, swapEnabled)

RECURSIVE DecodeAttrs(_, _, _, _)
\* attrs[i] = [key, this.decodeString()] (line 354), key already read.
DecodeAttrValue(key, value, i, attrs, swapEnabled) ==
  IF ~value.ok THEN Thrown(value.bin)
  ELSE DecodeAttrs(value.bin, i - 1, Append(attrs, << key, value.val >>),
                   swapEnabled)

DecodeAttrKey(key, i, attrs, swapEnabled) ==
  IF ~key.ok THEN Thrown(key.bin)
  ELSE DecodeAttrValue(key.val, decodeString(key.bin, swapEnabled), i, attrs,
                       swapEnabled)

\* The attribute loop of decodeElement (lines 353-355): i attributes are
\* still to be read.
DecodeAttrs(binaryData, i, attrs, swapEnabled) ==
  IF i <= 0 THEN [ok |-> TRUE, val |-> attrs, bin |-> binaryData]
  ELSE DecodeAttrKey(decodeString(binaryData, swapEnabled), i, attrs, swapEnabled)

\* children.push({ content: this.decodeString() }) (line 368), content being
\* what decodeString returned.
DecodeContent(content) ==
  IF ~content.ok THEN Thrown(content.bin)
  ELSE [ok |-> TRUE, val |-> << [content |-> content.val] >>, bin |-> content.bin]

\* return { name, attrs, children } (line 370)
MakeNode(name, attrs, children) ==
  IF ~children.ok THEN Thrown(children.bin)
  ELSE [ok |-> TRUE,
        val |-> [name |-> name, attrs |-> attrs, children |-> children.val],
        bin |-> children.bin]

RECURSIVE decodeElement(_, _)
RECURSIVE DecodeChildren(_, _, _, _)
DecodeChild(child, i, children, swapEnabled) ==
  IF ~child.ok THEN Thrown(child.bin)
  ELSE DecodeChildren(child.bin, i - 1, Append(children, child.val), swapEnabled)

\* The child loop of decodeElement (lines 363-365): i children are still to
\* be read.
DecodeChildren(binaryData, i, children, swapEnabled) ==
  IF i <= 0 THEN [ok |-> TRUE, val |-> children, bin |-> binaryData]
  ELSE DecodeChild(decodeElement(binaryData, swapEnabled), i, children, swapEnabled)

\* The IS_ELEMENT branch (lines 360-366), childCount being what decodeNumber
\* returned.
DecodeElementChildren(childCount, swapEnabled) ==
  IF ~childCount.ok THEN Thrown(childCount.bin)
  ELSE DecodeChildren(childCount.bin, childCount.val, << >>, swapEnabled)

\* Lines 357-370, childrenType being what decodeNumber returned.
DecodeBody(name, attrs, childrenType, swapEnabled) ==
  IF ~childrenType.ok THEN Thrown(childrenType.bin)
  ELSE IF childrenType.val = IS_ELEMENT
    THEN MakeNode(name, attrs,
                  DecodeElementChildren(decodeNumber(childrenType.bin), swapEnabled))
  ELSE IF childrenType.val = IS_CONTENT
    THEN MakeNode(name, attrs,
                  DecodeContent(decodeString(childrenType.bin, swapEnabled)))
  ELSE MakeNode(name, attrs,
                [ok |-> TRUE, val |-> << >>, bin |-> childrenType.bin])

\* Lines 357-370, attrs being what the attribute loop produced.
DecodeAfterAttrs(name, attrs, swapEnabled) ==
  IF ~attrs.ok THEN Thrown(attrs.bin)
  ELSE DecodeBody(name, attrs.val, decodeNumber(attrs.bin), swapEnabled)

\* Lines 352-370, attrCount being what decodeNumber returned.
DecodeAfterAttrCount(name, attrCount, swapEnabled) ==
  IF ~attrCount.ok THEN Thrown(attrCount.bin)
  ELSE DecodeAfterAttrs(name,
         DecodeAttrs(attrCount.bin, attrCount.val, << >>, swapEnabled),
         swapEnabled)

\* Lines 351-370, name being what decodeString returned.
DecodeAfterName(name, swapEnabled) ==
  IF ~name.ok THEN Thrown(name.bin)
  ELSE DecodeAfterAttrCount(name.val, decodeNumber(name.bin), swapEnabled)

\* this.decodeElement: ok = FALSE when it throws, val = the node returned,
\* bin = this.binaryData afterwards.
decodeElement(binaryData, swapEnabled) ==
  DecodeAfterName(decodeString(binaryData, swapEnabled), swapEnabled)

\* ------------------------------------------------------------------------
\* Inputs
\* ------------------------------------------------------------------------
\* "a", "b"
NameSet == { << 97 >>, << 98 >> }

\* ("k", ""), ("h", "\u00e9")
AttrPairs == { << << 107 >>, << >> >>, << << 104 >>, << 233 >> >> }

\* "", "a", "\u00e9b", "\ufeffa"
TextSet == { << >>, << 97 >>, << 233, 98 >>, << 65279, 97 >> }

SeqsUpTo(S, n) == UNION { [1..k -> S] : k \in 0..n }

AttrLists == SeqsUpTo(AttrPairs, MaxAttrs)

TextNodes == { [content |-> s] : s \in TextSet }

\* Elements without element children.
Leaves ==
  { [name |-> n, attrs |-> a, children |-> c] :
      n \in NameSet, a \in AttrLists,
      c \in { << >> } \cup { << t >> : t \in TextNodes } }

\* The nodes that appear as children in the inputs.
ChildNodes ==
  { [name |-> << 98 >>, attrs |-> << >>, children |-> << >>],
    [name |-> << 98 >>, attrs |-> << << << 104 >>, << 233 >> >> >>,
     children |-> << [content |-> << 97 >>] >>],
    [name |-> << 97 >>, attrs |-> << >>, children |-> << [content |-> << >>] >>],
    [content |-> << 97 >>],
    [content |-> << >>] }

\* Elements with children lists of every mix of elements and text nodes.
Parents ==
  { [name |-> << 97 >>, attrs |-> << >>, children |-> c] :
      c \in SeqsUpTo(ChildNodes, MaxKids) \ { << >> } }

\* An element whose children have children.
Grandparents ==
  { [name |-> << 98 >>, attrs |-> << >>,
     children |-> << p, [name |-> << 98 >>, attrs |-> << >>, children |-> << >>] >>] :
      p \in { q \in Parents : Len(q.children) = 1 } }

Elements == Leaves \cup Parents \cup Grandparents

\* The values around each change of the encoded length, up to 2^28 - 1.
Boundary ==
  { 127, 128, 129, 255, 256, 300, 16383, 16384, 65535, 1000000, 2097151,
    2097152, 134217728, 268435455 }

Numbers == (0..MaxNum) \cup Boundary

\* Bytes that follow a number in a buffer.
Rests == { << >>, << 0 >>, << 5, 200 >> }

\* Continuation chains.
Chains ==
  { << 128, 128, 128, 128, 128 >>, << 255, 255, 255, 255, 255 >>,
    << 129, 130, 131, 132, 143, 1 >>, << 255, 255, 255, 255, 135, 7 >>,
    << 128, 128 >>, << 255, 255, 255, 255 >> }

NoElement == [name |-> << >>, attrs |-> << >>, children |-> << >>]

NoResult == [ok |-> TRUE, val |-> << >>]

\* ------------------------------------------------------------------------
\* State
\* ------------------------------------------------------------------------
VARIABLES
  swapEnabled,   \* this.swapEnabled, from converterOptions
  accumulator,   \* this.accumulator
  binaryData,    \* this.binaryData
  op,            \* the last call made
  element,       \* the element passed to the last encodeElement
  number,        \* the number passed to the last encodeNumber(AddtoAcc)
  wire,          \* the bytes the last encode call produced
  accBefore,     \* this.accumulator before the last encode call
  cut,           \* trailing bytes of wire that the last setBin left out
  binBefore,     \* this.binaryData before the last decode call
  result         \* what the last decode call returned, ok = FALSE if it threw

vars ==
  << swapEnabled, accumulator, binaryData, op, element, number, wire,
     accBefore, cut, binBefore, result >>

\* new XMLConverter(converterOptions)
Init ==
  /\ swapEnabled \in BOOLEAN
  /\ accumulator = << >>
  /\ binaryData = << >>
  /\ op = "new"
  /\ element = NoElement
  /\ number = 0
  /\ wire = << >>
  /\ accBefore = << >>
  /\ cut = 0
  /\ binBefore = << >>
  /\ result = NoResult

\* new XMLConverter(converterOptions): a fresh accumulator and no binary data.
NewConverter ==
  /\ op # "new"
  /\ accumulator' = << >>
  /\ binaryData' = << >>
  /\ op' = "new"
  /\ element' = NoElement
  /\ number' = 0
  /\ wire' = << >>
  /\ accBefore' = << >>
  /\ cut' = 0
  /\ binBefore' = << >>
  /\ result' = NoResult
  /\ UNCHANGED swapEnabled

\* converter.encodeElement(t): the call returns this.accumulator.  A converter
\* encodes before any binary data is loaded into it (lines 16-36).
EncodeElementCall(t) ==
  /\ binaryData = << >>
  /\ Len(accumulator) < MaxAccLen
  /\ accumulator' = encodeElement(accumulator, t, swapEnabled)
  /\ wire' = accumulator'
  /\ accBefore' = accumulator
  /\ element' = t
  /\ op' = "encodeElement"
  /\ cut' = 0
  /\ binBefore' = << >>
  /\ result' = NoResult
  /\ UNCHANGED << swapEnabled, binaryData, number >>

\* converter.setBin(buffer), buffer being the encoded bytes without their
\* last k bytes.
SetBinCall(k) ==
  /\ k <= Len(wire)
  /\ binaryData' = Slice(wire, 0, Len(wire) - k)
  /\ cut' = k
  /\ op' = "setBin"
  /\ binBefore' = << >>
  /\ result' = NoResult
  /\ UNCHANGED << swapEnabled, accumulator, element, number, wire, accBefore >>

\* converter.decodeElement()
DecodeElementCall ==
  /\ LET r == decodeElement(binaryData, swapEnabled)
     IN  /\ binaryData' = r.bin
         /\ result' = [ok |-> r.ok, val |-> r.val]
  /\ binBefore' = binaryData
  /\ op' = "decodeElement"
  /\ UNCHANGED << swapEnabled, accumulator, element, number, wire, accBefore, cut >>

\* XMLConverter.encodeNumber(n), a static method.
EncodeNumberCall(n) ==
  /\ binaryData = << >>
  /\ wire' = encodeNumber(n)
  /\ number' = n
  /\ accBefore' = accumulator
  /\ op' = "encodeNumber"
  /\ cut' = 0
  /\ binBefore' = << >>
  /\ result' = NoResult
  /\ UNCHANGED << swapEnabled, accumulator, binaryData, element >>

\* converter.encodeNumberAddtoAcc(n); the caller then reads the accumulator.
EncodeNumberAddtoAccCall(n) ==
  /\ binaryData = << >>
  /\ Len(accumulator) < MaxAccNum
  /\ accumulator' = encodeNumberAddtoAcc(accumulator, n)
  /\ wire' = SliceFrom(accumulator', Len(accumulator))
  /\ number' = n
  /\ accBefore' = accumulator
  /\ op' = "encodeNumberAddtoAcc"
  /\ cut' = 0
  /\ binBefore' = << >>
  /\ result' = NoResult
  /\ UNCHANGED << swapEnabled, binaryData, element >>

\* converter.setBin(buffer), buffer being an encoded number and the bytes
\* that follow it.
SetBinNumber(rest) ==
  /\ op \in { "encodeNumber", "encodeNumberAddtoAcc", "setBin" }
  /\ binaryData' = wire \o rest
  /\ cut' = 0
  /\ op' = "setBin"
  /\ binBefore' = << >>
  /\ result' = NoResult
  /\ UNCHANGED << swapEnabled, accumulator, element, number, wire, accBefore >>

\* converter.setBin(buffer), buffer being a chain of continuation bytes.
SetBinChain(chain) ==
  /\ binaryData' = chain
  /\ cut' = 0
  /\ op' = "setBin"
  /\ binBefore' = << >>
  /\ result' = NoResult
  /\ UNCHANGED << swapEnabled, accumulator, element, number, wire, accBefore >>

\* converter.decodeNumber()
DecodeNumberCall ==
  /\ LET r == decodeNumber(binaryData)
     IN  /\ binaryData' = r.bin
         /\ result' = [ok |-> r.ok, val |-> r.val]
  /\ binBefore' = binaryData
  /\ op' = "decodeNumber"
  /\ UNCHANGED << swapEnabled, accumulator, element, number, wire, accBefore, cut >>

\* The element codec: encodeXmlString and decodeData, on one converter or on
\* a new one for each call.
Next ==
  \/ NewConverter
  \/ \E t \in Elements : EncodeElementCall(t)
  \/ \E k \in 0..MaxCut : SetBinCall(k)
  \/ DecodeElementCall

Spec == Init /\ [][Next]_vars

\* The number codec alone.
NextNum ==
  \/ NewConverter
  \/ \E n \in Numbers : EncodeNumberCall(n)
  \/ \E n \in Numbers : EncodeNumberAddtoAccCall(n)
  \/ \E rest \in Rests : SetBinNumber(rest)
  \/ \E chain \in Chains : SetBinChain(chain)
  \/ DecodeNumberCall

SpecNum == Init /\ [][NextNum]_vars

\* ------------------------------------------------------------------------
\* Claims
\* ------------------------------------------------------------------------
IsTextNode(node) == "content" \in DOMAIN node

IsElementNode(node) == "name" \in DOMAIN node

\* The data model of an element: a non-empty name and children that are
\* none, exactly one text node, or one or more elements.
RECURSIVE WellFormed(_)
WellFormed(t) ==
  /\ t.name # << >>
  /\ \/ t.children = << >>
     \/ Len(t.children) = 1 /\ IsTextNode(t.children[1])
     \/ \A i \in 1..Len(t.children) :
          IsElementNode(t.children[i]) /\ WellFormed(t.children[i])

\* Every text node of t has content that is not empty.
RECURSIVE TextsNotEmpty(_)
TextsNotEmpty(t) ==
  \A i \in 1..Len(t.children) :
    IF IsTextNode(t.children[i]) THEN t.children[i].content # << >>
    ELSE TextsNotEmpty(t.children[i])

\* The bytes the last encode call appended to the accumulator.
Emitted == SliceFrom(wire, Len(accBefore))

\* StringField := VarInt(byteLength) byte{byteLength}
StringField(str) ==
  LET payload == IF swapEnabled THEN nibbleSwap(TextEncode(str)) ELSE TextEncode(str)
  IN  encodeNumber(Len(payload)) \o payload

RECURSIVE AttrFields(_)
AttrFields(attrs) ==
  IF attrs = << >> THEN << >>
  ELSE StringField(Head(attrs)[1]) \o StringField(Head(attrs)[2])
       \o AttrFields(Tail(attrs))

\* StringField(name) VarInt(attrCount) Attr*
HeadFields(t) ==
  StringField(t.name) \o encodeNumber(Len(t.attrs)) \o AttrFields(t.attrs)

\* The value of a VarInt: 7 data bits a byte, least significant group first.
RECURSIVE VarIntValue(_)
VarIntValue(bytes) ==
  IF bytes = << >> THEN 0
  ELSE (Head(bytes) % 128) + (128 * VarIntValue(Tail(bytes)))

\* bytes is the VarInt of n: the continuation bit on all bytes but the last.
IsVarIntOf(bytes, n) ==
  /\ Len(bytes) >= 1
  /\ \A i \in 1..(Len(bytes) - 1) : bytes[i] >= 128
  /\ bytes[Len(bytes)] < 128
  /\ Len(bytes) = 1 \/ bytes[Len(bytes)] # 0
  /\ VarIntValue(bytes) = n

IsPrefix(p, bytes) == Len(p) <= Len(bytes) /\ SubSeq(bytes, 1, Len(p)) = p

\* C1: decodeElement applied to the bytes encodeElement returned for a
\* well-formed element returns an element equal to it.
C1_RoundTrip ==
  (op = "decodeElement" /\ WellFormed(element) /\ accBefore = << >>
     /\ cut = 0 /\ binBefore = wire)
  => (result.ok /\ result.val = element)

\* C2: decodeElement of a valid encoding without its last bytes throws.
C2_Truncation ==
  (op = "decodeElement" /\ WellFormed(element) /\ TextsNotEmpty(element)
     /\ accBefore = << >> /\ cut > 0
     /\ binBefore = Slice(wire, 0, Len(wire) - cut))
  => ~result.ok

\* C3: encodeNumber and encodeNumberAddtoAcc produce the VarInt of n
\* (0 -> 00, 127 -> 7F, 128 -> 80 01), and decodeNumber on a cursor that
\* holds encodeNumber(n) returns n and consumes exactly those bytes.
C3_VarInt ==
  /\ op \in { "encodeNumber", "encodeNumberAddtoAcc" } =>
       /\ IsVarIntOf(wire, number)
       /\ number = 0 => wire = << 0 >>
       /\ number = 127 => wire = << 127 >>
       /\ number = 128 => wire = << 128, 1 >>
  /\ op = "encodeNumberAddtoAcc" => accumulator = accBefore \o wire
  /\ op = "decodeNumber" =>
       \A n \in Numbers :
         IsPrefix(encodeNumber(n), binBefore) =>
           /\ result = [ok |-> TRUE, val |-> n]
           /\ binaryData = SliceFrom(binBefore, Len(encodeNumber(n)))

C3_Witness ==
  /\ op = "decodeNumber"
  /\ number = 128
  /\ binBefore = << 128, 1, 5, 200 >>
  /\ result = [ok |-> TRUE, val |-> 128]
  /\ binaryData = << 5, 200 >>

\* C4: an element whose only child is a text node {content: s} is encoded as
\* its head, CONTENT and StringField(s), and decodes to that text node.
C4_TextOnly ==
  (op = "encodeElement" /\ Len(element.children) = 1
     /\ IsTextNode(element.children[1]))
  => /\ Emitted = HeadFields(element) \o << IS_CONTENT >>
                    \o StringField(element.children[1].content)
     /\ LET d == decodeElement(Emitted, swapEnabled)
        IN  d.ok /\ d.val.children = element.children

\* C5: an element without children is encoded as its head, ELEMENT and the
\* count 0, and decodes to an element without children.
C5_ZeroChildren ==
  /\ (op = "encodeElement" /\ element.children = << >>)
     => /\ Emitted = HeadFields(element) \o << IS_ELEMENT, 0 >>
        /\ LET d == decodeElement(Emitted, swapEnabled)
           IN  d.ok /\ d.val.children = << >> /\ d.bin = << >>
  /\ (op = "decodeElement" /\ element # NoElement /\ element.children = << >>
        /\ binBefore = Emitted)
     => (result.ok /\ result.val.children = << >>)

C5_Witness ==
  /\ op = "decodeElement"
  /\ element.name # << >>
  /\ element.children = << >>
  /\ Len(element.attrs) = 2
  /\ binBefore = Emitted
  /\ result.ok
  /\ result.val.children = << >>

\* C6: nibbleSwapTable is an involution and a bijection on 0..255, and
\* nibbleSwap keeps the length, so nibbleSwap twice is the identity.
C6_NibbleSwap ==
  /\ \A b \in 0..255 : nibbleSwapTable[nibbleSwapTable[b]] = b
  /\ { nibbleSwapTable[b] : b \in 0..255 } = 0..255
  /\ \A bytes \in { wire, accumulator, binaryData } :
       /\ Len(nibbleSwap(bytes)) = Len(bytes)
       /\ nibbleSwap(nibbleSwap(bytes)) = bytes

C6_Witness ==
  /\ op = "encodeElement"
  /\ swapEnabled
  /\ Len(wire) > 4
  /\ nibbleSwap(wire) # wire
  /\ nibbleSwap(nibbleSwap(wire)) = wire

\* C7: decodeNumber on five bytes that all have the continuation bit set
\* throws and leaves the cursor where it was.
C7_MalformedVarInt ==
  (op = "decodeNumber" /\ Len(binBefore) >= 5
     /\ \A i \in 1..5 : binBefore[i] >= 128)
  => (~result.ok /\ binaryData = binBefore)

\* C8: the bytes an encodeElement call returns are the encoding of the
\* element passed to that call.
C8_OwnBuffer ==
  op = "encodeElement" => wire = encodeElement(<< >>, element, swapEnabled)

\* C9: when the first child is a text node, the element is encoded as its
\* head, CONTENT and the StringField of that child; the siblings after it
\* add no bytes.
C9_OneTextRun ==
  (op = "encodeElement" /\ element.children # << >>
     /\ IsTextNode(element.children[1]) /\ TextsNotEmpty(element))
  => Emitted = HeadFields(element) \o << IS_CONTENT >>
                 \o StringField(element.children[1].content)

\* The number of children of t that are elements.
ElementCount(t) ==
  Cardinality({ i \in 1..Len(t.children) : IsElementNode(t.children[i]) })

\* C10: when the first child is an element, the count after ELEMENT is the
\* number of element records that follow, and decodeElement reads that many
\* children and nothing else.
C10_CountMatchesBody ==
  (op = "encodeElement" /\ element.children # << >>
     /\ IsElementNode(element.children[1]) /\ TextsNotEmpty(element))
  => /\ IsPrefix(HeadFields(element) \o << IS_ELEMENT >>
                   \o encodeNumber(ElementCount(element)), Emitted)
     /\ LET d == decodeElement(Emitted, swapEnabled)
        IN  d.ok /\ d.bin = << >>
            /\ Len(d.val.children) = ElementCount(element)

====
